---- MODULE Spec2Model ----
(***************************************************************************)
(* alphaSim: a fixed-step simulation of ground sensors observing aircraft. *)
(*                                                                         *)
(* Numbers.  Python floats are modelled by exact integers:                 *)
(*   - latitude and longitude are counted in 1/DegScale of a degree,       *)
(*     altitude, ranges and distances in whole metres, time in whole       *)
(*     seconds;                                                            *)
(*   - the numeric value of a latitude x is x/DegScale, and the code adds  *)
(*     and subtracts degrees and metres as plain numbers, which the model  *)
(*     keeps (Norm);                                                       *)
(*   - a square root is rounded UP to the next whole metre, so that the    *)
(*     comparison "distance > max_range" against a whole max_range is      *)
(*     exactly the comparison of the real numbers;                         *)
(*   - a quality is the exact fraction num/den.                            *)
(* None is the record [kind |-> "None"].  A raised exception is an         *)
(* outcome of its own ("raised"), never a value.                           *)
(***************************************************************************)
EXTENDS Integers, Sequences, FiniteSets, TLC

VARIABLES
    sensors,        \* Simulation.sensors: the list of Sensor objects
    aircraft,       \* Simulation.aircraft: the list of Aircraft objects
    terrain_data,   \* Simulation.terrain_data: None or the TerrainData loaded
    terrain,        \* a TerrainData object queried on its own, or None
    time,           \* Simulation.time
    ret,            \* the last call of step, run, get_elevation or observe:
                    \* its arguments and what it returned
    held            \* the observations of earlier ticks a caller still holds

vars == <<sensors, aircraft, terrain_data, terrain, time, ret, held>>

----------------------------------------------------------------------------
(* Bounds of the model.                                                    *)

MaxSensors == 2
MaxAircraft == 2
MaxTime == 2
MaxDt == 2
LosSamples == 4

(* Units of a degree: positions are (lat, lon, alt) "in degrees and       *)
(* meters"; one model unit of lat/lon is 1/DegScale degree.                *)
DegScale == 1000

None == [kind |-> "None"]

Abs(x) == IF x < 0 THEN -x ELSE x

Min(a, b) == IF a < b THEN a ELSE b

(* int(a / b) of Python: the quotient truncated towards zero (b # 0).      *)
Trunc(a, b) ==
    IF (a >= 0) = (b > 0) THEN Abs(a) \div Abs(b) ELSE -(Abs(a) \div Abs(b))

(* The least whole r with r * r >= n, by bisection of lo < r <= hi.        *)
RECURSIVE CeilSqrtIn(_, _, _)
CeilSqrtIn(n, lo, hi) ==
    IF hi - lo <= 1 THEN hi
    ELSE LET mid == (lo + hi) \div 2 IN
         IF mid * mid >= n THEN CeilSqrtIn(n, lo, mid) ELSE CeilSqrtIn(n, mid, hi)

CeilSqrt(n) == IF n <= 0 THEN 0 ELSE CeilSqrtIn(n, 0, Min(n, 46340))

----------------------------------------------------------------------------
(* numpy arrays of shape (2,) or (3,).                                     *)

(* a - b (or a + b) of two arrays raises ValueError unless the shapes      *)
(* broadcast: equal lengths, or one of them of length 1.                   *)
Broadcastable(a, b) == Len(a) = Len(b) \/ Len(a) = 1 \/ Len(b) = 1

(* a += b in place: b must broadcast to the shape of a.                    *)
InPlaceAddable(a, b) == Len(b) = Len(a) \/ Len(b) = 1

(* np.linalg.norm(a - b) of two (lat, lon, alt) arrays: the numeric values *)
(* of the degrees and the metres squared and summed together, rounded up.  *)
Norm(a, b) ==
    LET h == (a[1] - b[1]) * (a[1] - b[1]) + (a[2] - b[2]) * (a[2] - b[2])
        v == (a[3] - b[3]) * (a[3] - b[3])
        whole == v + (h \div (DegScale * DegScale))
        frac == h % (DegScale * DegScale)
    IN  CeilSqrt(whole + (IF frac > 0 THEN 1 ELSE 0))

----------------------------------------------------------------------------
(* Sensor (sensors/base.py).                                               *)

(* Sensor.__init__: stores its arguments; it validates none of them.       *)
SensorInit(sensor_id, position, max_range, field_of_view) ==
    [id |-> sensor_id, position |-> position, max_range |-> max_range,
     field_of_view |-> field_of_view]

CalculateDistance(sensor, target_position) == Norm(sensor.position, target_position)

InFieldOfView(sensor, target_position) == TRUE

HasLineOfSight(sensor, target_position, terrain_arg) == TRUE

(* The quality with "1.0 -" forgotten: distance / max_range, clamped.      *)
CalculateQualityInverted(sensor, distance) ==
    LET R == sensor.max_range IN
    IF R <= 0 THEN [num |-> 0, den |-> 1]
    ELSE IF distance > R THEN [num |-> R, den |-> R]
    ELSE [num |-> distance, den |-> R]

(* 1.0 - distance / max_range clamped by max(0.0, min(1.0, q)).  With      *)
(* max_range = 0 the numpy division gives nan (0/0) or inf (d/0):          *)
(* min(1.0, nan) is 1.0 and max(0.0, -inf) is 0.0.                         *)
CalculateQuality(sensor, distance) ==
    LET R == sensor.max_range IN
    IF R = 0 THEN (IF distance = 0 THEN [num |-> 1, den |-> 1] ELSE [num |-> 0, den |-> 1])
    ELSE IF R < 0 THEN
        \* quality = 1 + distance/|R| >= 1, clamped by min(1.0, .)
        [num |-> 1, den |-> 1]
    ELSE IF R - distance < 0 THEN [num |-> 0, den |-> R]
    ELSE IF R - distance > R THEN [num |-> R, den |-> R]
    ELSE [num |-> R - distance, den |-> R]

(* Sensor.observe: None, an observation, or "raised" when the subtraction  *)
(* of the two position arrays raises.                                      *)
Observe(sensor, ac, terrain_arg) ==
    IF ~Broadcastable(sensor.position, ac.position) THEN [kind |-> "raised"]
    ELSE LET distance == CalculateDistance(sensor, ac.position) IN
         IF distance > sensor.max_range THEN None
         ELSE IF ~InFieldOfView(sensor, ac.position) THEN None
         ELSE IF ~HasLineOfSight(sensor, ac.position, terrain_arg) THEN None
         ELSE [kind |-> "Observation",
               sensor_id |-> sensor.id,
               aircraft_id |-> ac.id,
               distance |-> distance,
               quality |-> CalculateQuality(sensor, distance),
               position |-> ac.position]

(* The 'position' of an observation without the copy: the aircraft's own   *)
(* array.  owner is the place of the aircraft in the simulation's list.    *)
ArrayShared(owner, contents) == [shared |-> TRUE, owner |-> owner]

(* aircraft.position.copy(), the 'position' of an observation: a new array *)
(* with the contents the aircraft's array has at the call, which no        *)
(* aircraft refers to.                                                     *)
ArrayCopy(owner, contents) == [shared |-> FALSE, contents |-> contents]

(* What reading an array gives once the aircraft are acs: "+=" in          *)
(* Aircraft.update writes into the aircraft's array in place, so whoever   *)
(* shares that array reads the aircraft's present position.                *)
Contents(array, acs) ==
    IF array.shared THEN acs[array.owner].position ELSE array.contents

(* The observation o that a step returned at time tick, as a caller holds  *)
(* it: the two floats, the array its 'position' refers to, and, to compare *)
(* with later, the values it had when the step returned.                   *)
Keep(o, acs, tick) ==
    [sensor_id |-> o.sensor_id,
     aircraft_id |-> o.aircraft_id,
     tick |-> tick,
     distance |-> o.distance,
     quality |-> o.quality,
     position |-> ArrayCopy(CHOOSE j \in 1..Len(acs) : acs[j].id = o.aircraft_id,
                            o.position),
     at_return |-> [distance |-> o.distance, quality |-> o.quality,
                    position |-> o.position]]

----------------------------------------------------------------------------
(* Aircraft (aircraft/base.py).                                            *)

AircraftInit(aircraft_id, initial_position, velocity) ==
    [id |-> aircraft_id, position |-> initial_position, velocity |-> velocity,
     trajectory |-> <<initial_position>>]

(* self.position += self.velocity * dt raises on a velocity array whose    *)
(* shape does not broadcast to the position's.                             *)
UpdateRaises(ac, dt) == ~InPlaceAddable(ac.position, ac.velocity)

Moved(position, velocity, dt) ==
    [k \in 1..Len(position) |->
        position[k] + (IF Len(velocity) = 1 THEN velocity[1] ELSE velocity[k]) * dt]

(* Aircraft.update.                                                        *)
Update(ac, dt) ==
    LET p == Moved(ac.position, ac.velocity, dt) IN
    [ac EXCEPT !.position = p, !.trajectory = Append(ac.trajectory, p)]

----------------------------------------------------------------------------
(* TerrainData (terrain/loader.py).                                        *)

(* TerrainData.__init__ raises ZeroDivisionError on resolution 0 and       *)
(* np.zeros raises ValueError on a negative dimension; no other            *)
(* resolution is refused.                                                  *)
TerrainInitRaises(bounds, resolution) ==
    \/ resolution = 0
    \/ Trunc(bounds[2] - bounds[1], resolution) < 0
    \/ Trunc(bounds[4] - bounds[3], resolution) < 0

(* TerrainData.__init__: the grid has int(span / resolution) points per    *)
(* axis, all elevations zero.                                              *)
TerrainInit(bounds, resolution) ==
    LET lat_points == Trunc(bounds[2] - bounds[1], resolution)
        lon_points == Trunc(bounds[4] - bounds[3], resolution)
    IN  [kind |-> "TerrainData", bounds |-> bounds, resolution |-> resolution,
         lat_points |-> lat_points, lon_points |-> lon_points,
         elevations |-> [i \in 0..(lat_points - 1) |-> [j \in 0..(lon_points - 1) |-> 0]]]

InBounds(t, lat, lon) ==
    /\ t.bounds[1] <= lat /\ lat <= t.bounds[2]
    /\ t.bounds[3] <= lon /\ lon <= t.bounds[4]

(* |np.linspace(lo, hi, n)[i] - x| multiplied by n - 1 (by 1 when n = 1,   *)
(* where the grid is the single point lo).                                 *)
GridGap(lo, hi, n, i, x) ==
    IF n = 1 THEN Abs(lo - x) ELSE Abs(lo * (n - 1) + i * (hi - lo) - x * (n - 1))

(* np.argmin(np.abs(grid - x)): the first index of the least gap.          *)
ArgMin(lo, hi, n, x) ==
    CHOOSE i \in 0..(n - 1) :
        /\ \A k \in 0..(n - 1) : GridGap(lo, hi, n, i, x) <= GridGap(lo, hi, n, k, x)
        /\ \A k \in 0..(i - 1) : GridGap(lo, hi, n, k, x) > GridGap(lo, hi, n, i, x)

(* TerrainData.get_elevation: None out of bounds; np.argmin of an empty    *)
(* grid raises ValueError; else the elevation of the nearest grid point.   *)
GetElevation(t, lat, lon) ==
    IF ~InBounds(t, lat, lon) THEN None
    ELSE IF t.lat_points = 0 \/ t.lon_points = 0 THEN [kind |-> "raised"]
    ELSE [kind |-> "value",
          value |-> t.elevations[ArgMin(t.bounds[1], t.bounds[2], t.lat_points, lat)]
                                [ArgMin(t.bounds[3], t.bounds[4], t.lon_points, lon)]]

----------------------------------------------------------------------------
(* Simulation (simulation.py).                                             *)

(* The loop "for aircraft in self.aircraft: aircraft.update(dt)" stops at  *)
(* the first aircraft whose update raises: those before it are updated,    *)
(* it and those after it are not.                                          *)
FirstRaising(acs, dt) ==
    IF \E i \in 1..Len(acs) : UpdateRaises(acs[i], dt)
    THEN CHOOSE i \in 1..Len(acs) :
            /\ UpdateRaises(acs[i], dt)
            /\ \A k \in 1..(i - 1) : ~UpdateRaises(acs[k], dt)
    ELSE Len(acs) + 1

UpdateAll(acs, dt) ==
    [i \in 1..Len(acs) |-> IF i < FirstRaising(acs, dt) THEN Update(acs[i], dt) ELSE acs[i]]

(* The inner loop of _calculate_observations over aircraft i..Len(acs).    *)
RECURSIVE SensorObs(_, _, _, _)
SensorObs(sensor, acs, terrain_arg, i) ==
    IF i > Len(acs) THEN <<>>
    ELSE LET obs == Observe(sensor, acs[i], terrain_arg)
             rest == SensorObs(sensor, acs, terrain_arg, i + 1)
         IN  IF obs # None THEN <<obs>> \o rest ELSE rest

(* _calculate_observations leaving out the sensors that observed nothing. *)
CalculateObservationsSkipEmpty(sens, acs, terrain_arg) ==
    IF \E i \in 1..Len(sens), j \in 1..Len(acs) :
            Observe(sens[i], acs[j], terrain_arg).kind = "raised"
    THEN [raised |-> TRUE]
    ELSE [raised |-> FALSE,
          value |-> [id \in {sens[i].id : i \in {i \in 1..Len(sens) :
                                    SensorObs(sens[i], acs, terrain_arg, 1) # <<>>}} |->
                        SensorObs(sens[CHOOSE i \in 1..Len(sens) : sens[i].id = id],
                                  acs, terrain_arg, 1)]]

(* Simulation._calculate_observations: a dict keyed by sensor id; a later  *)
(* sensor of the same id overwrites an earlier one.                        *)
CalculateObservations(sens, acs, terrain_arg) ==
    IF \E i \in 1..Len(sens), j \in 1..Len(acs) :
            Observe(sens[i], acs[j], terrain_arg).kind = "raised"
    THEN [raised |-> TRUE]
    ELSE [raised |-> FALSE,
          value |-> [id \in {sens[i].id : i \in 1..Len(sens)} |->
                        LET last == CHOOSE i \in 1..Len(sens) :
                                        /\ sens[i].id = id
                                        /\ \A k \in (i + 1)..Len(sens) : sens[k].id # id
                        IN  SensorObs(sens[last], acs, terrain_arg, 1)]]

(* step with the two phases swapped: the sensors observe, then the         *)
(* aircraft move.                                                          *)
StepObserveFirst(t, acs, sens, terrain_arg, dt) ==
    LET o == CalculateObservations(sens, acs, terrain_arg) IN
    IF FirstRaising(acs, dt) <= Len(acs) \/ o.raised
    THEN [time |-> t + dt, aircraft |-> UpdateAll(acs, dt), raised |-> TRUE]
    ELSE [time |-> t + dt, aircraft |-> UpdateAll(acs, dt), raised |-> FALSE,
          value |-> o.value]

(* Simulation.step as a function of the state: the time and the aircraft   *)
(* after it, and what it returned.                                         *)
StepFn(t, acs, sens, terrain_arg, dt) ==
    LET updated == UpdateAll(acs, dt) IN
    IF FirstRaising(acs, dt) <= Len(acs)
    THEN [time |-> t + dt, aircraft |-> updated, raised |-> TRUE]
    ELSE LET o == CalculateObservations(sens, updated, terrain_arg) IN
         IF o.raised
         THEN [time |-> t + dt, aircraft |-> updated, raised |-> TRUE]
         ELSE [time |-> t + dt, aircraft |-> updated, raised |-> FALSE,
               value |-> o.value]

(* The number of steps with a partial last interval rounded up.            *)
NumStepsRoundUp(duration, dt) ==
    IF duration % dt = 0 THEN Trunc(duration, dt) ELSE Trunc(duration, dt) + 1

(* steps = int(duration / dt); range(steps) is empty for steps <= 0.       *)
NumSteps(duration, dt) == Trunc(duration, dt)

(* The loop of Simulation.run, with k steps left: it stops at the first    *)
(* step that raises.                                                       *)
RECURSIVE RunLoop(_, _, _, _, _, _, _)
RunLoop(k, t, acs, sens, terrain_arg, dt, all_observations) ==
    IF k <= 0
    THEN [time |-> t, aircraft |-> acs, raised |-> FALSE, value |-> all_observations]
    ELSE LET s == StepFn(t, acs, sens, terrain_arg, dt) IN
         IF s.raised THEN [time |-> s.time, aircraft |-> s.aircraft, raised |-> TRUE]
         ELSE RunLoop(k - 1, s.time, s.aircraft, sens, terrain_arg, dt,
                      Append(all_observations, [time |-> s.time, observations |-> s.value]))

RunFn(t, acs, sens, terrain_arg, duration, dt) ==
    RunLoop(NumSteps(duration, dt), t, acs, sens, terrain_arg, dt, <<>>)

----------------------------------------------------------------------------
(* The arguments the callers pass.                                         *)

(* Sensor(id, position, max_range, field_of_view): the sensor of the       *)
(* end-to-end scenario at the origin, and one of range 0 and field of      *)
(* view 0 placed 1000 m above it.                                          *)
SensorArgs ==
    {<<<<0, 0, 0>>, 1000, 360>>,
     <<<<0, 0, 1000>>, 0, 0>>}

(* A sensor whose position is given without its altitude.                  *)
ShortSensorArgs == {<<<<0, 0>>, 1000, 360>>}

(* Aircraft(id, initial_position, velocity): at (0 deg, 0.01 deg, 100 m)   *)
(* flying west at 0.001 deg/s; 1200 m above the origin descending at       *)
(* 100 m/s.                                                                *)
AircraftArgs ==
    {<<<<0, 10, 100>>, <<0, -1, 0>>>>,
     <<<<0, 0, 1200>>, <<0, 0, -100>>>>}

(* An aircraft whose velocity is given without its vertical component.     *)
ShortAircraftArgs == {<<<<0, 0, 1200>>, <<0, 0>>>>}

(* TerrainData(bounds, resolution).                                        *)
TerrainBounds == {<<0, 8, 0, 12>>}

Resolutions == {-20, -4, 0, 4, 20}

(* The resolutions of the terrain a simulation loads.                      *)
LoadedResolutions == {-20, -4, 0, 4}

(* generate_synthetic(base_elevation, variation).                          *)
SyntheticArgs == {<<0, 400>>}

(* get_elevation(lat, lon).                                                *)
QueryLats == {-1, 0, 3, 4, 8, 9}

QueryLons == {-1, 0, 3, 5, 6, 9, 12, 13}

(* Targets of a single observe call: low and high over the far edge.       *)
TargetPositions == {<<0, 12, 100>>, <<0, 12, 900>>}

----------------------------------------------------------------------------
(* Actions.                                                                *)

Init ==
    /\ sensors = <<>>
    /\ aircraft = <<>>
    /\ terrain_data = None
    /\ terrain = None
    /\ time = 0
    /\ ret = [op |-> "none"]
    /\ held = {}

(* sim.add_sensor(Sensor(id, position, max_range, field_of_view)), the id  *)
(* a "unique identifier" as Sensor.__init__ documents; sensors are added   *)
(* before the first step, as main.py does.                                 *)
AddSensorFrom(argset) ==
    /\ ret.op = "none"
    /\ Len(sensors) < MaxSensors
    /\ \E args \in argset :
            sensors' = Append(sensors,
                              SensorInit(Len(sensors) + 1, args[1], args[2], args[3]))
    /\ UNCHANGED <<aircraft, terrain_data, terrain, time, ret, held>>

AddSensor == AddSensorFrom(SensorArgs)

(* sim.add_aircraft(Aircraft(id, initial_position, velocity)), before the  *)
(* first step.                                                             *)
AddAircraftFrom(argset) ==
    /\ ret.op = "none"
    /\ Len(aircraft) < MaxAircraft
    /\ \E args \in argset :
            aircraft' = Append(aircraft, AircraftInit(Len(aircraft) + 1, args[1], args[2]))
    /\ UNCHANGED <<sensors, terrain_data, terrain, time, ret, held>>

AddAircraft == AddAircraftFrom(AircraftArgs)

(* sim.load_terrain(TerrainData(bounds, resolution)), when the constructor *)
(* does not raise.                                                         *)
LoadTerrain ==
    /\ ret.op = "none"
    /\ terrain_data = None
    /\ \E bounds \in TerrainBounds, resolution \in LoadedResolutions :
            /\ ~TerrainInitRaises(bounds, resolution)
            /\ terrain_data' = TerrainInit(bounds, resolution)
    /\ UNCHANGED <<sensors, aircraft, terrain, time, ret, held>>

(* sim.step(dt); s is what the call does, worked out once.                 *)
Step ==
    \E dt \in 1..MaxDt :
        /\ time + dt <= MaxTime
        /\ \E s \in {StepFn(time, aircraft, sensors, terrain_data, dt)} :
            /\ time' = s.time
            /\ aircraft' = s.aircraft
            /\ ret' = IF s.raised
                      THEN [op |-> "step", dt |-> dt, time0 |-> time, before |-> aircraft,
                            raised |-> TRUE]
                      ELSE [op |-> "step", dt |-> dt, time0 |-> time, before |-> aircraft,
                            raised |-> FALSE, value |-> s.value]
        /\ UNCHANGED <<sensors, terrain_data, terrain, held>>

(* sim.run(duration, dt); r is what the call does, worked out once.        *)
Run ==
    \E duration \in (-1)..(MaxTime + 1), dt \in 1..MaxDt :
        /\ time + NumSteps(duration, dt) * dt <= MaxTime
        /\ \E r \in {RunFn(time, aircraft, sensors, terrain_data, duration, dt)} :
            /\ time' = r.time
            /\ aircraft' = r.aircraft
            /\ ret' = IF r.raised
                      THEN [op |-> "run", duration |-> duration, dt |-> dt, time0 |-> time,
                            before |-> aircraft, raised |-> TRUE]
                      ELSE [op |-> "run", duration |-> duration, dt |-> dt, time0 |-> time,
                            before |-> aircraft, raised |-> FALSE, value |-> r.value]
        /\ UNCHANGED <<sensors, terrain_data, terrain, held>>

Next ==
    \/ AddSensor
    \/ AddAircraft
    \/ LoadTerrain
    \/ Step
    \/ Run

Spec == Init /\ [][Next]_vars

(* The simulation when the callers also pass arrays of the wrong length,   *)
(* which the constructors accept and step raises on.                       *)
AddShortSensor == AddSensorFrom(ShortSensorArgs)

AddShortAircraft == AddAircraftFrom(ShortAircraftArgs)

NextFaulty ==
    \/ AddSensor
    \/ AddShortSensor
    \/ AddAircraft
    \/ AddShortAircraft
    \/ Step
    \/ Run

SpecFaulty == Init /\ [][NextFaulty]_vars

----------------------------------------------------------------------------
(* The simulation when the caller holds on to what the steps return.       *)

(* The observations of the table observations, returned at time tick.      *)
KeptOf(observations, acs, tick) ==
    UNION {{Keep(observations[id][k], acs, tick) : k \in 1..Len(observations[id])} :
            id \in DOMAIN observations}

(* kept = sim.step(dt), the caller adding the result to what it holds.     *)
StepKeep ==
    \E dt \in 1..MaxDt :
        /\ time + dt <= MaxTime
        /\ \E s \in {StepFn(time, aircraft, sensors, terrain_data, dt)} :
            /\ time' = s.time
            /\ aircraft' = s.aircraft
            /\ ret' = IF s.raised
                      THEN [op |-> "step", dt |-> dt, time0 |-> time, before |-> aircraft,
                            raised |-> TRUE]
                      ELSE [op |-> "step", dt |-> dt, time0 |-> time, before |-> aircraft,
                            raised |-> FALSE, value |-> s.value]
            /\ held' = IF s.raised THEN held
                       ELSE held \cup KeptOf(s.value, s.aircraft, s.time)
        /\ UNCHANGED <<sensors, terrain_data, terrain>>

(* kept = sim.run(duration, dt): the records of all its ticks, each made   *)
(* by its own step and held in all_observations while the later ones run.  *)
RunKeep ==
    \E duration \in (-1)..(MaxTime + 1), dt \in 1..MaxDt :
        /\ time + NumSteps(duration, dt) * dt <= MaxTime
        /\ \E r \in {RunFn(time, aircraft, sensors, terrain_data, duration, dt)} :
            /\ time' = r.time
            /\ aircraft' = r.aircraft
            /\ ret' = IF r.raised
                      THEN [op |-> "run", duration |-> duration, dt |-> dt, time0 |-> time,
                            before |-> aircraft, raised |-> TRUE]
                      ELSE [op |-> "run", duration |-> duration, dt |-> dt, time0 |-> time,
                            before |-> aircraft, raised |-> FALSE, value |-> r.value]
            /\ held' = IF r.raised THEN held
                       ELSE held \cup
                            UNION {KeptOf(r.value[k].observations, r.aircraft,
                                          r.value[k].time) : k \in 1..Len(r.value)}
        /\ UNCHANGED <<sensors, terrain_data, terrain>>

NextSnapshot ==
    \/ AddSensor
    \/ AddAircraft
    \/ StepKeep
    \/ RunKeep

SpecSnapshot == Init /\ [][NextSnapshot]_vars

----------------------------------------------------------------------------
(* The terrain and a single observation, called on their own.              *)

(* terrain = TerrainData(bounds, resolution), when the constructor does    *)
(* not raise.                                                              *)
NewTerrainData ==
    /\ \E bounds \in TerrainBounds, resolution \in Resolutions :
            /\ ~TerrainInitRaises(bounds, resolution)
            /\ terrain' = TerrainInit(bounds, resolution)
    /\ UNCHANGED <<sensors, aircraft, terrain_data, time, ret, held>>

(* base_elevation + variation * np.random.random(shape): each cell draws   *)
(* its own fraction of the variation, here 0 or 1/2.                       *)
SyntheticElevations(t, base_elevation, variation) ==
    [0..(t.lat_points - 1) ->
        [0..(t.lon_points - 1) -> {base_elevation, base_elevation + variation \div 2}]]

(* terrain.generate_synthetic(base_elevation, variation).                  *)
GenerateSynthetic ==
    /\ terrain # None
    /\ \E args \in SyntheticArgs :
        \E e \in SyntheticElevations(terrain, args[1], args[2]) :
            terrain' = [terrain EXCEPT !.elevations = e]
    /\ UNCHANGED <<sensors, aircraft, terrain_data, time, ret, held>>

(* terrain.get_elevation(lat, lon).                                        *)
GetElevationCall ==
    /\ terrain # None
    /\ \E lat \in QueryLats, lon \in QueryLons :
            ret' = [op |-> "get_elevation", lat |-> lat, lon |-> lon,
                    result |-> GetElevation(terrain, lat, lon)]
    /\ UNCHANGED <<sensors, aircraft, terrain_data, terrain, time, held>>

(* Sensor(...).observe(Aircraft(...), terrain).                            *)
ObserveCall ==
    /\ \E args \in SensorArgs, target \in TargetPositions :
        LET sensor == SensorInit(1, args[1], args[2], args[3])
            ac == AircraftInit(1, target, <<0, 0, 0>>)
        IN  ret' = [op |-> "observe", sensor |-> sensor, aircraft |-> ac,
                    result |-> Observe(sensor, ac, terrain)]
    /\ UNCHANGED <<sensors, aircraft, terrain_data, terrain, time, held>>

NextTerrain ==
    \/ NewTerrainData
    \/ GenerateSynthetic
    \/ GetElevationCall
    \/ ObserveCall

SpecTerrain == Init /\ [][NextTerrain]_vars

----------------------------------------------------------------------------
(* What the claims speak of.                                               *)

Returned(op) == ret.op = op /\ ~ret.raised

(* floor(a / b), the mathematical floor (b > 0).                           *)
Floor(a, b) == a \div b

UsedIds(seq) == {seq[i].id : i \in 1..Len(seq)}

IndexOf(seq, id) == CHOOSE i \in 1..Len(seq) : seq[i].id = id

(* The aircraft as it stood `back` ticks before the last one.              *)
AircraftAtTick(ac, back) ==
    [ac EXCEPT !.position = ac.trajectory[Len(ac.trajectory) - back]]

(* The observation tables the last call returned, each with the number of  *)
(* ticks that followed it within that call.                                *)
Tables ==
    IF Returned("step") THEN {[back |-> 0, value |-> ret.value]}
    ELSE IF Returned("run")
    THEN {[back |-> Len(ret.value) - k, value |-> ret.value[k].observations] :
            k \in 1..Len(ret.value)}
    ELSE {}

ObsOf(table) ==
    UNION {{table.value[id][k] : k \in 1..Len(table.value[id])} : id \in DOMAIN table.value}

(* C1: every observation a step returns carries the position its aircraft  *)
(* has after that tick's update (the pre-update position moved by          *)
(* velocity * dt), and the distance from the sensor to that position.      *)
C1_UpdateBeforeObserve ==
    /\ \A table \in Tables : \A id \in DOMAIN table.value :
         \A k \in 1..Len(table.value[id]) :
            LET o == table.value[id][k]
                s == sensors[IndexOf(sensors, id)]
                a == AircraftAtTick(aircraft[IndexOf(aircraft, o.aircraft_id)], table.back)
            IN  /\ o.sensor_id = id
                /\ o.position = a.position
                /\ o.distance = Norm(s.position, a.position)
    /\ Returned("step") =>
         \A j \in 1..Len(aircraft) :
            aircraft[j].position =
                Moved(ret.before[j].position, ret.before[j].velocity, ret.dt)

(* A step returned an observation of an aircraft that was out of range     *)
(* before the update and moved into range by it.                           *)
C1_Witness ==
    /\ Returned("step")
    /\ \E id \in DOMAIN ret.value : \E k \in 1..Len(ret.value[id]) :
         LET o == ret.value[id][k]
             s == sensors[IndexOf(sensors, id)]
             b == ret.before[IndexOf(aircraft, o.aircraft_id)]
         IN  /\ b.position # o.position
             /\ Norm(s.position, b.position) > s.max_range

(* C2: a step's result has one entry per registered sensor, and a          *)
(* sensor's entry holds, in the order the aircraft were added, exactly one *)
(* observation for each aircraft its observe does not reject.              *)
C2_CartesianProduct ==
    \A table \in Tables :
        /\ DOMAIN table.value = UsedIds(sensors)
        /\ \A i \in 1..Len(sensors) :
            LET l == table.value[sensors[i].id] IN
            /\ \A j \in 1..Len(aircraft) :
                LET obs == Observe(sensors[i], AircraftAtTick(aircraft[j], table.back),
                                   terrain_data)
                    at == {k \in 1..Len(l) : l[k].aircraft_id = aircraft[j].id}
                IN  IF obs = None THEN at = {}
                    ELSE Cardinality(at) = 1 /\ \A k \in at : l[k] = obs
            /\ \A k1, k2 \in 1..Len(l) :
                k1 < k2 => IndexOf(aircraft, l[k1].aircraft_id)
                            < IndexOf(aircraft, l[k2].aircraft_id)

(* Two sensors and two aircraft: one sensor sees both, the other not both. *)
C2_Witness ==
    /\ Returned("step")
    /\ Len(sensors) = 2 /\ Len(aircraft) = 2
    /\ \E id \in DOMAIN ret.value : Len(ret.value[id]) = 2
    /\ \E id \in DOMAIN ret.value : Len(ret.value[id]) < 2

(* C3 as claimed: run(duration, dt), dt > 0, returns floor(duration / dt)  *)
(* records, the k-th at the start time plus k * dt.                        *)
C3_RunFloor ==
    Returned("run") =>
        /\ Len(ret.value) = Floor(ret.duration, ret.dt)
        /\ \A k \in 1..Len(ret.value) : ret.value[k].time = ret.time0 + k * ret.dt

(* C3 amended: for a duration >= 0, run returns floor(duration / dt)       *)
(* records, the k-th at the start time plus k * dt, and has advanced the   *)
(* time and every aircraft by that many steps of dt; for a negative        *)
(* duration it performs no step and returns no record.                     *)
C3_RunFloorNonNegative ==
    Returned("run") =>
        LET n == IF ret.duration >= 0 THEN Floor(ret.duration, ret.dt) ELSE 0 IN
        /\ Len(ret.value) = n
        /\ \A k \in 1..n : ret.value[k].time = ret.time0 + k * ret.dt
        /\ time = ret.time0 + n * ret.dt
        /\ \A j \in 1..Len(aircraft) :
            /\ Len(aircraft[j].trajectory) = Len(ret.before[j].trajectory) + n
            /\ aircraft[j].position =
                IF n = 0 THEN ret.before[j].position
                ELSE Moved(ret.before[j].position, ret.before[j].velocity, n * ret.dt)

(* A run over a duration that is no multiple of dt returned records.       *)
C3_Witness ==
    /\ Returned("run")
    /\ ret.duration % ret.dt # 0
    /\ Len(ret.value) >= 1
    /\ Len(aircraft) >= 1

(* The observations of aircraft id in a list.                              *)
Of(l, id) == {l[k] : k \in {k \in 1..Len(l) : l[k].aircraft_id = id}}

(* C4 as claimed: a target farther than max_range is never observed, and   *)
(* a target at exactly max_range is observed with quality 0.               *)
C4_RangeBoundary ==
    \A table \in Tables : \A i \in 1..Len(sensors), j \in 1..Len(aircraft) :
        LET a == AircraftAtTick(aircraft[j], table.back)
            d == CalculateDistance(sensors[i], a.position)
            seen == Of(table.value[sensors[i].id], a.id)
        IN  /\ d > sensors[i].max_range => seen = {}
            /\ d = sensors[i].max_range =>
                seen # {} /\ \A o \in seen : o.quality.num = 0

(* The terrain elevation under the point k/LosSamples of the way from the  *)
(* sensor to the target exceeds the height of the straight line there.     *)
OccludedAt(t, from, to, k) ==
    LET lat == from[1] + (k * (to[1] - from[1])) \div LosSamples
        lon == from[2] + (k * (to[2] - from[2])) \div LosSamples
        e == GetElevation(t, lat, lon)
    IN  /\ e.kind = "value"
        /\ e.value * LosSamples > from[3] * LosSamples + k * (to[3] - from[3])

RidgeBetween(t, from, to) ==
    /\ t # None
    /\ \E k \in 1..(LosSamples - 1) : OccludedAt(t, from, to, k)

(* C5 as claimed: observe returns nothing for a target in range behind a   *)
(* ridge that rises above the line of sight, and an observation for a      *)
(* target in range that no terrain hides.                                  *)
C5_Occlusion ==
    (/\ ret.op = "observe"
     /\ ret.result.kind # "raised"
     /\ CalculateDistance(ret.sensor, ret.aircraft.position) <= ret.sensor.max_range)
    => IF RidgeBetween(terrain, ret.sensor.position, ret.aircraft.position)
       THEN ret.result = None
       ELSE ret.result.kind = "Observation"

(* Is quality p less than quality q?                                       *)
QLess(p, q) == p.num * q.den < q.num * p.den

AllObs == UNION {ObsOf(table) : table \in Tables}

(* C6: every observation returned has 0 <= quality <= 1, and of two        *)
(* observations of one sensor the farther has the strictly smaller quality.*)
C6_QualityBounds ==
    /\ \A o \in AllObs :
        /\ o.quality.den > 0
        /\ 0 <= o.quality.num
        /\ o.quality.num <= o.quality.den
    /\ \A o1, o2 \in AllObs :
        (o1.sensor_id = o2.sensor_id /\ o1.distance > o2.distance)
            => QLess(o1.quality, o2.quality)

(* One sensor returned two observations at different distances.            *)
C6_Witness ==
    \E o1, o2 \in AllObs :
        /\ o1.sensor_id = o2.sensor_id
        /\ o1.distance > o2.distance
        /\ o2.quality.num < o2.quality.den

(* The end-to-end scenario: the one sensor at the origin, range 1000 m,    *)
(* field of view 360; the one aircraft started at (0, 0.01 deg, 100 m)     *)
(* flying west; no terrain or flat terrain.                                *)
EndToEnd ==
    /\ sensors = <<SensorInit(1, <<0, 0, 0>>, 1000, 360)>>
    /\ Len(aircraft) = 1
    /\ aircraft[1].trajectory[1] = <<0, 10, 100>>
    /\ aircraft[1].velocity = <<0, -1, 0>>

(* The geodetic distance is within r metres: one degree of arc is          *)
(* 111.3 km (0.01 deg is about 1113 m), so 1/1000 deg is 1113 decimetres.  *)
GeodeticWithin(a, b, r) ==
    (1113 * (a[1] - b[1])) * (1113 * (a[1] - b[1]))
    + (1113 * (a[2] - b[2])) * (1113 * (a[2] - b[2]))
    + (10 * (a[3] - b[3])) * (10 * (a[3] - b[3]))
    <= (10 * r) * (10 * r)

(* C7 as claimed: in the end-to-end scenario a step returns a detection    *)
(* exactly when the aircraft has come within 1000 m, with quality > 0.     *)
C7_EndToEnd ==
    (EndToEnd /\ Returned("step")) =>
        LET seen == Of(ret.value[1], 1) IN
        IF GeodeticWithin(sensors[1].position, aircraft[1].position, 1000)
        THEN seen # {} /\ \A o \in seen : o.quality.num > 0
        ELSE seen = {}

ValidSensor(s) ==
    s.max_range > 0 /\ 0 < s.field_of_view /\ s.field_of_view <= 360

(* C8 as claimed: no sensor with max_range <= 0 or a field of view outside *)
(* (0, 360], and no terrain with resolution <= 0, exists in a simulation   *)
(* that has performed a step.                                              *)
C8_FailFast ==
    Returned("step") =>
        /\ \A i \in 1..Len(sensors) : ValidSensor(sensors[i])
        /\ terrain_data # None => terrain_data.resolution > 0

(* C9 as claimed, of a terrain of positive resolution: get_elevation       *)
(* returns None outside the bounds, and inside them the elevation of a     *)
(* grid point nearest to the coordinate.                                   *)
C9_GetElevation ==
    (ret.op = "get_elevation" /\ terrain.resolution > 0) =>
        IF ~InBounds(terrain, ret.lat, ret.lon) THEN ret.result = None
        ELSE /\ ret.result.kind = "value"
             /\ \E i \in 0..(terrain.lat_points - 1), j \in 0..(terrain.lon_points - 1) :
                 /\ ret.result.value = terrain.elevations[i][j]
                 /\ \A k \in 0..(terrain.lat_points - 1) :
                     GridGap(terrain.bounds[1], terrain.bounds[2], terrain.lat_points, i, ret.lat)
                     <= GridGap(terrain.bounds[1], terrain.bounds[2], terrain.lat_points, k, ret.lat)
                 /\ \A k \in 0..(terrain.lon_points - 1) :
                     GridGap(terrain.bounds[3], terrain.bounds[4], terrain.lon_points, j, ret.lon)
                     <= GridGap(terrain.bounds[3], terrain.bounds[4], terrain.lon_points, k, ret.lon)

(* C10 as claimed: a step in which one update or one observation fails     *)
(* still returns, having updated every aircraft whose update does not      *)
(* fail, with the observations of every pair that does not fail.           *)
C10_FailureIsolated ==
    ret.op = "step" =>
        /\ ~ret.raised
        /\ \A j \in 1..Len(aircraft) :
            ~UpdateRaises(ret.before[j], ret.dt)
                => aircraft[j] = Update(ret.before[j], ret.dt)
        /\ \A i \in 1..Len(sensors), j \in 1..Len(aircraft) :
            LET obs == Observe(sensors[i], aircraft[j], terrain_data) IN
            obs.kind = "Observation" => obs \in Of(ret.value[sensors[i].id], aircraft[j].id)

----------------------------------------------------------------------------
(* C11: an observation is a snapshot that later ticks never change: after  *)
(* any number of further steps, which move the aircraft in place, the      *)
(* position, distance and quality an observation of an earlier step holds  *)
(* are the values they had when that step returned.                        *)
C11_SnapshotUnchanged ==
    \A o \in held :
        /\ Contents(o.position, aircraft) = o.at_return.position
        /\ o.distance = o.at_return.distance
        /\ o.quality = o.at_return.quality

(* An observation of an earlier tick is held and its aircraft has since    *)
(* been moved by a later step.                                             *)
C11_Witness ==
    \E o \in held :
        /\ o.tick < time
        /\ \E j \in 1..Len(aircraft) :
            /\ aircraft[j].id = o.aircraft_id
            /\ aircraft[j].position # o.at_return.position
            /\ Len(aircraft[j].trajectory) > 2

====
